---- MODULE Spec2Model ----
(***************************************************************************)
(* static_bits: MaxBits<Width>, an unsigned integer held in a u128 whose   *)
(* bit width is tracked by a typenum type parameter (src/src/main.rs).     *)
(*                                                                         *)
(* A u128 is modelled as the set of its set bit positions (a subset of     *)
(* 0..127), so every operator works at the full 128-bit width.  A value    *)
(* MaxBits<Width> is the record [data, width]; the width is the type       *)
(* parameter, which the where clauses of each impl constrain.  Option<T>   *)
(* is a sequence of length at most one.                                    *)
(*                                                                         *)
(* Rust's integer arithmetic depends on the build: with overflow checks    *)
(* (debug) an overflowing +, - or a shift distance >= 128 panics; without  *)
(* them (release) the result wraps and the shift distance is masked.       *)
(***************************************************************************)
EXTENDS Integers, FiniteSets, Sequences, TLC

VARIABLES build, vals, last, ops, panicked, pc, env

vars == <<build, vals, last, ops, panicked, pc, env>>

(* ------------------------------ u128 ----------------------------------- *)

MaximumWidth == 128

Bits == 0 .. (MaximumWidth - 1)

None == <<>>

Some(v) == <<v>>

unwrap(o) == o[1]

\* u128::leading_zeros: the n highest bits are clear and the next one is set
leading_zeros(data) ==
    CHOOSE n \in 0 .. MaximumWidth :
        /\ data \cap ((MaximumWidth - n) .. (MaximumWidth - 1)) = {}
        /\ n = MaximumWidth \/ (MaximumWidth - 1 - n) \in data

\* a shift distance >= 128 overflows: panic with overflow checks, masked without
ShiftOverflows(Shift) == Shift >= MaximumWidth

ShlU128(data, Shift) == {i + (Shift % MaximumWidth) : i \in data} \cap Bits

ShrU128(data, Shift) == {i - (Shift % MaximumWidth) : i \in data} \cap Bits

\* the positions of a + b that receive a carry: some lower position generates
\* one (both bits set) and no position in between kills it (both bits clear)
Carries(a, b) ==
    LET gen == a \cap b
        kill == Bits \ (a \cup b)
    IN  {i \in 1 .. MaximumWidth :
            \E j \in gen : j < i /\ kill \cap ((j + 1) .. (i - 1)) = {}}

\* u128 `+` without overflow checks (wrapping), and whether it overflows
AddU128(a, b) ==
    LET c == Carries(a, b)
    IN  {i \in Bits : ((i \in a) # (i \in b)) # (i \in c)}

AddOverflows(a, b) == MaximumWidth \in Carries(a, b)

\* an integer literal, given by its hexadecimal digits, most significant first
HexLit(digits) ==
    LET n == Len(digits)
        ones == {q \in (1 .. n) \X (0 .. 3) : (digits[q[1]] \div (2 ^ q[2])) % 2 = 1}
    IN  {4 * (n - q[1]) + q[2] : q \in ones}

U128Max == Bits

(* ------------------------- typenum constraints ------------------------- *)

Max(a, b) == IF a >= b THEN a ELSE b

Min(a, b) == IF a <= b THEN a ELSE b

IsGreaterOrEqual(a, b) == a >= b

IsLessOrEqual(a, b) == a <= b

\* The ordering traits are read as the constraints their names state: a where
\* clause `A: IsLessOrEqual<B>` admits exactly the widths with A <= B.
\* typenum's unsigned Sub has no impl when the result would be negative.
SubDefined(a, b) == a >= b

(* ------------------------------ MaxBits -------------------------------- *)

\* the u32 subtraction MaximumWidth::to_u32() - Width::to_u32() underflows
FitsOverflows(Width) == Width > MaximumWidth

\* fits with the comparison off by one (> for >=)
fits_strict(data, Width) ==
    IF FitsOverflows(Width) THEN FALSE
    ELSE leading_zeros(data) > MaximumWidth - Width

\* Without overflow checks the underflowing subtraction wraps to
\* 2^32 - (Width - 128), which no leading-zero count (at most 128) reaches.
fits(data, Width) ==
    IF FitsOverflows(Width) THEN FALSE
    ELSE leading_zeros(data) >= MaximumWidth - Width

new(data, Width) ==
    IF fits(data, Width) THEN Some([data |-> data, width |-> Width]) ELSE None

into_inner(self) == self.data

widen_where(Width, Widened) == IsGreaterOrEqual(Widened, Width)

widen(self, Widened) == [data |-> self.data, width |-> Widened]

narrow_where(Width, Narrowed) == IsLessOrEqual(Narrowed, Width)

narrow(self, Narrowed) == new(self.data, Narrowed)

shl_where(Width, Shift) == IsLessOrEqual(Width + Shift, MaximumWidth)

shl(self, Shift) == [data |-> ShlU128(self.data, Shift), width |-> self.width + Shift]

shr_where(Width, Shift) == SubDefined(Width, Shift)

shr(self, Shift) == [data |-> ShrU128(self.data, Shift), width |-> self.width - Shift]

\* bitor tagged with the narrower operand's width
bitor_min(self, rhs) == [data |-> self.data \cup rhs.data, width |-> Min(self.width, rhs.width)]

bitor(self, rhs) == [data |-> self.data \cup rhs.data, width |-> Max(self.width, rhs.width)]

bitand(self, rhs) == [data |-> self.data \cap rhs.data, width |-> Min(self.width, rhs.width)]

bitxor(self, rhs) ==
    [data |-> (self.data \ rhs.data) \cup (rhs.data \ self.data),
     width |-> Max(self.width, rhs.width)]

not(self) == [data |-> Bits \ self.data, width |-> MaximumWidth]

add_where(Width, RhsWidth) == IsLessOrEqual(Max(Width, RhsWidth) + 1, MaximumWidth)

\* add without the extra bit in the output width
add_no_carry_bit(self, rhs) ==
    [data |-> AddU128(self.data, rhs.data), width |-> Max(self.width, rhs.width)]

add(self, rhs) ==
    [data |-> AddU128(self.data, rhs.data), width |-> Max(self.width, rhs.width) + 1]

sub_where(Width, RhsWidth) == SubDefined(Width, 1) /\ IsLessOrEqual(RhsWidth, Width)

\* sub computing the wrapping difference self.data - rhs.data
sub_difference(self, rhs) ==
    [data |-> AddU128(AddU128(self.data, Bits \ rhs.data), {0}), width |-> self.width - 1]

sub(self, rhs) == [data |-> AddU128(self.data, rhs.data), width |-> self.width - 1]

(* ------------------------------- callers ------------------------------- *)

\* most calls a caller composes
MaxOps == 4

\* A caller holds two bindings: Acc, the value it transforms, and Operand, a
\* constructed value it uses as a right-hand side.  Each is bound by one
\* successful construct; every operator result is bound to Acc.
Acc == "a"

Operand == "b"

Slots == {Acc, Operand}

\* the type parameters (typenum U0, U1, ...) and raw values a caller picks
WidthSet == {0, 1, 7, 8, 128, 129}

ShiftSet == {0, 1, 127, 128}

RawSet == {{}, {0}, HexLit(<<15, 15>>), U128Max}

MainVars == {"bits", "shifted", "bigger", "summed", "one", "eighty_mask", "six_mask", "six_bits"}

NoOp == [op |-> "none", self |-> None, rhs |-> None, arg |-> 0, raw |-> {}, out |-> None,
         fault |-> FALSE]

Init ==
    /\ build \in {"debug", "release"}
    /\ vals = [s \in Slots |-> None]
    /\ last = NoOp
    /\ ops = 0
    /\ panicked = FALSE
    /\ pc = 0
    /\ env = [v \in MainVars |-> None]

\* One call made by an arbitrary caller: the result, when there is one, is
\* bound to slot dst; a fault panics under overflow checks.
Call(rec, faulted, dst) ==
    /\ ~panicked
    /\ pc = 0
    /\ ops < MaxOps
    /\ ops' = ops + 1
    /\ UNCHANGED <<build, pc, env>>
    /\ IF faulted /\ build = "debug"
       THEN /\ panicked' = TRUE
            /\ last' = [rec EXCEPT !.out = None, !.fault = TRUE]
            /\ vals' = vals
       ELSE /\ panicked' = FALSE
            /\ last' = [rec EXCEPT !.fault = faulted]
            /\ vals' = IF rec.out = None THEN vals ELSE [vals EXCEPT ![dst] = rec.out]

New(dst, data, Width) ==
    /\ vals[dst] = None
    /\ Call([NoOp EXCEPT !.op = "new", !.arg = Width, !.raw = data, !.out = new(data, Width)],
            FitsOverflows(Width), dst)

IntoInner(s) ==
    /\ vals[s] # None
    /\ Call([NoOp EXCEPT !.op = "into_inner", !.self = vals[s],
                         !.raw = into_inner(unwrap(vals[s]))], FALSE, s)

Widen(s, Widened) ==
    /\ vals[s] # None
    /\ widen_where(unwrap(vals[s]).width, Widened)
    /\ Call([NoOp EXCEPT !.op = "widen", !.self = vals[s], !.arg = Widened,
                         !.out = Some(widen(unwrap(vals[s]), Widened))], FALSE, s)

Narrow(s, Narrowed) ==
    /\ vals[s] # None
    /\ narrow_where(unwrap(vals[s]).width, Narrowed)
    /\ Call([NoOp EXCEPT !.op = "narrow", !.self = vals[s], !.arg = Narrowed,
                         !.out = narrow(unwrap(vals[s]), Narrowed)],
            FitsOverflows(Narrowed), s)

Shl(s, Shift) ==
    /\ vals[s] # None
    /\ shl_where(unwrap(vals[s]).width, Shift)
    /\ Call([NoOp EXCEPT !.op = "shl", !.self = vals[s], !.arg = Shift,
                         !.out = Some(shl(unwrap(vals[s]), Shift))],
            ShiftOverflows(Shift), s)

Shr(s, Shift) ==
    /\ vals[s] # None
    /\ shr_where(unwrap(vals[s]).width, Shift)
    /\ Call([NoOp EXCEPT !.op = "shr", !.self = vals[s], !.arg = Shift,
                         !.out = Some(shr(unwrap(vals[s]), Shift))],
            ShiftOverflows(Shift), s)

BitOr(s, r) ==
    /\ vals[s] # None /\ vals[r] # None
    /\ Call([NoOp EXCEPT !.op = "bitor", !.self = vals[s], !.rhs = vals[r],
                         !.out = Some(bitor(unwrap(vals[s]), unwrap(vals[r])))], FALSE, s)

BitAnd(s, r) ==
    /\ vals[s] # None /\ vals[r] # None
    /\ Call([NoOp EXCEPT !.op = "bitand", !.self = vals[s], !.rhs = vals[r],
                         !.out = Some(bitand(unwrap(vals[s]), unwrap(vals[r])))], FALSE, s)

BitXor(s, r) ==
    /\ vals[s] # None /\ vals[r] # None
    /\ Call([NoOp EXCEPT !.op = "bitxor", !.self = vals[s], !.rhs = vals[r],
                         !.out = Some(bitxor(unwrap(vals[s]), unwrap(vals[r])))], FALSE, s)

Not(s) ==
    /\ vals[s] # None
    /\ Call([NoOp EXCEPT !.op = "not", !.self = vals[s],
                         !.out = Some(not(unwrap(vals[s])))], FALSE, s)

Add(s, r) ==
    /\ vals[s] # None /\ vals[r] # None
    /\ add_where(unwrap(vals[s]).width, unwrap(vals[r]).width)
    /\ Call([NoOp EXCEPT !.op = "add", !.self = vals[s], !.rhs = vals[r],
                         !.out = Some(add(unwrap(vals[s]), unwrap(vals[r])))],
            AddOverflows(unwrap(vals[s]).data, unwrap(vals[r]).data), s)

Sub(s, r) ==
    /\ vals[s] # None /\ vals[r] # None
    /\ sub_where(unwrap(vals[s]).width, unwrap(vals[r]).width)
    /\ Call([NoOp EXCEPT !.op = "sub", !.self = vals[s], !.rhs = vals[r],
                         !.out = Some(sub(unwrap(vals[s]), unwrap(vals[r])))],
            AddOverflows(unwrap(vals[s]).data, unwrap(vals[r]).data), s)

(* -------------------------------- main --------------------------------- *)

\* One `let` of main: binds name to the statement's value; a None that is
\* unwrapped panics in every build, an arithmetic fault under overflow checks.
Let(n, name, faulted, value) ==
    /\ ~panicked
    /\ ops = 0
    /\ pc = n - 1
    /\ UNCHANGED <<build, vals, last, ops>>
    /\ IF value = None \/ (faulted /\ build = "debug")
       THEN panicked' = TRUE /\ UNCHANGED <<pc, env>>
       ELSE /\ panicked' = FALSE
            /\ pc' = n
            /\ env' = [env EXCEPT ![name] = value]

Bound(name) == unwrap(env[name])

\* let bits = MaxBits::<U16>::new(0xffff).unwrap();
Main1 ==
    /\ pc = 0
    /\ Let(1, "bits", FitsOverflows(16), new(HexLit(<<15, 15, 15, 15>>), 16))

\* let shifted: MaxBits<U32> = (bits << U15::new()).widen();
Main2 ==
    /\ pc = 1
    /\ shl_where(Bound("bits").width, 15)
    /\ widen_where(shl(Bound("bits"), 15).width, 32)
    /\ Let(2, "shifted", ShiftOverflows(15), Some(widen(shl(Bound("bits"), 15), 32)))

\* let bigger = MaxBits::<U48>::new(0xcdbaef123456).unwrap();
Main3 ==
    /\ pc = 2
    /\ Let(3, "bigger", FitsOverflows(48),
           new(HexLit(<<12, 13, 11, 10, 14, 15, 1, 2, 3, 4, 5, 6>>), 48))

\* let summed: MaxBits<U49> = shifted + bigger;
Main4 ==
    /\ pc = 3
    /\ add_where(Bound("shifted").width, Bound("bigger").width)
    /\ add(Bound("shifted"), Bound("bigger")).width = 49
    /\ Let(4, "summed", AddOverflows(Bound("shifted").data, Bound("bigger").data),
           Some(add(Bound("shifted"), Bound("bigger"))))

\* let bits = MaxBits::<U128>::new(u128::MAX).unwrap();
Main5 ==
    /\ pc = 4
    /\ Let(5, "bits", FitsOverflows(128), new(U128Max, 128))

\* let one = MaxBits::<U1>::new(1).unwrap();
Main6 ==
    /\ pc = 5
    /\ Let(6, "one", FitsOverflows(1), new({0}, 1))

\* let eighty_mask: MaxBits<U80> = (one << U80::new()) - one;
Main7 ==
    /\ pc = 6
    /\ shl_where(Bound("one").width, 80)
    /\ sub_where(shl(Bound("one"), 80).width, Bound("one").width)
    /\ sub(shl(Bound("one"), 80), Bound("one")).width = 80
    /\ Let(7, "eighty_mask",
           ShiftOverflows(80) \/ AddOverflows(shl(Bound("one"), 80).data, Bound("one").data),
           Some(sub(shl(Bound("one"), 80), Bound("one"))))

\* let bits: MaxBits<U80> = bits & eighty_mask;
Main8 ==
    /\ pc = 7
    /\ bitand(Bound("bits"), Bound("eighty_mask")).width = 80
    /\ Let(8, "bits", FALSE, Some(bitand(Bound("bits"), Bound("eighty_mask"))))

\* let six_mask: MaxBits<U6> = (one << U6::new()) - one;
Main9 ==
    /\ pc = 8
    /\ shl_where(Bound("one").width, 6)
    /\ sub_where(shl(Bound("one"), 6).width, Bound("one").width)
    /\ sub(shl(Bound("one"), 6), Bound("one")).width = 6
    /\ Let(9, "six_mask",
           ShiftOverflows(6) \/ AddOverflows(shl(Bound("one"), 6).data, Bound("one").data),
           Some(sub(shl(Bound("one"), 6), Bound("one"))))

\* let six_bits: MaxBits<U6> = (eighty_mask & (six_mask << U74::new())) >> U74::new();
Main10 ==
    /\ pc = 9
    /\ shl_where(Bound("six_mask").width, 74)
    /\ shr_where(bitand(Bound("eighty_mask"), shl(Bound("six_mask"), 74)).width, 74)
    /\ shr(bitand(Bound("eighty_mask"), shl(Bound("six_mask"), 74)), 74).width = 6
    /\ Let(10, "six_bits", ShiftOverflows(74),
           Some(shr(bitand(Bound("eighty_mask"), shl(Bound("six_mask"), 74)), 74)))

Next ==
    \/ \E dst \in Slots, data \in RawSet, Width \in WidthSet : New(dst, data, Width)
    \/ IntoInner(Acc)
    \/ \E Widened \in WidthSet : Widen(Acc, Widened)
    \/ \E Narrowed \in WidthSet : Narrow(Acc, Narrowed)
    \/ \E Shift \in ShiftSet : Shl(Acc, Shift)
    \/ \E Shift \in ShiftSet : Shr(Acc, Shift)
    \/ \E r \in Slots : BitOr(Acc, r)
    \/ \E r \in Slots : BitAnd(Acc, r)
    \/ \E r \in Slots : BitXor(Acc, r)
    \/ Not(Acc)
    \/ \E r \in Slots : Add(Acc, r)
    \/ \E r \in Slots : Sub(Acc, r)
    \/ Main1 \/ Main2 \/ Main3 \/ Main4 \/ Main5
    \/ Main6 \/ Main7 \/ Main8 \/ Main9 \/ Main10

Spec == Init /\ [][Next]_vars

(* ------------------------------- claims -------------------------------- *)

\* the width invariant: the raw data needs at most `width` significant bits
WidthInv(v) == leading_zeros(v.data) >= MaximumWidth - v.width

\* number of significant bits of a number: the least n below which all its
\* bits lie
BitLen(data) ==
    CHOOSE n \in 0 .. MaximumWidth : data \subseteq 0 .. (n - 1) /\ (n = 0 \/ (n - 1) \in data)

\* the number a bit set of fewer than 31 bits stands for
RECURSIVE ToNat(_)
ToNat(data) ==
    IF data = {} THEN 0
    ELSE LET i == CHOOSE x \in data : TRUE IN 2 ^ i + ToNat(data \ {i})

Small(data) == BitLen(data) <= 30

Self == unwrap(last.self)

Rhs == unwrap(last.rhs)

Out == unwrap(last.out)

\* C1: every value a caller or main holds satisfies the width invariant of its
\* declared width.
C1_WidthInvariant ==
    /\ \A s \in Slots : vals[s] # None => WidthInv(unwrap(vals[s]))
    /\ \A n \in MainVars : env[n] # None => WidthInv(unwrap(env[n]))

\* C2: for a width in 0..128, new returns a value iff the raw value needs at
\* most that many significant bits, and into_inner of that value is the raw
\* value.
C2_Construct ==
    (last.op = "new" /\ last.arg \in 0 .. MaximumWidth) =>
        /\ ~last.fault
        /\ last.out # None <=> BitLen(last.raw) <= last.arg
        /\ last.out # None => (into_inner(Out) = last.raw /\ Out.width = last.arg)

C2_Witness ==
    /\ last.op = "new" /\ last.raw = U128Max /\ last.arg = MaximumWidth
    /\ last.out # None /\ into_inner(Out) = U128Max

\* C3: no call ends in an arithmetic overflow, an underflow of the width
\* computation or an over-long shift.  Stated for the calls whose widths are
\* all in 0..128, where the width computation cannot underflow.
C3_NoFault ==
    (/\ last.op \in {"new", "narrow"} => last.arg <= MaximumWidth
     /\ \A s \in Slots : vals[s] # None => unwrap(vals[s]).width <= MaximumWidth)
    => (~last.fault /\ ~panicked)

\* C4: narrow to a width not above the value's returns no value iff the raw
\* data needs more significant bits than the target width, and otherwise the
\* same raw data tagged with the target width.
C4_Narrow ==
    last.op = "narrow" =>
        /\ last.out = None <=> BitLen(Self.data) > last.arg
        /\ last.out # None => Out = [data |-> Self.data, width |-> last.arg]

\* C5: widen keeps the raw data, and narrowing the widened value back to the
\* original width succeeds and returns the original value.  Stated for the
\* widened widths in 0..128.
C5_WidenNarrow ==
    /\ [](last.op = "widen" => (last.arg >= Self.width /\ Out.data = Self.data))
    /\ [][(last.op = "widen" /\ last.arg <= MaximumWidth
           /\ last'.op = "narrow" /\ last'.self = last.out /\ last'.arg = Self.width)
          => last'.out = last.self]_vars

\* C6: v << S completes and is tagged W + S, and shifting the result right by
\* S gives back v at width W.
C6_ShiftRoundTrip ==
    /\ [](last.op = "shl" =>
            (Self.width + last.arg <= MaximumWidth
             /\ last.out # None /\ Out.width = Self.width + last.arg))
    /\ [][(last.op = "shl" /\ last'.op = "shr" /\ last'.self = last.out
           /\ last'.arg = last.arg)
          => last'.out = last.self]_vars

\* C7: the sum of two values that satisfy their width invariants is tagged
\* max(W1, W2) + 1, does not overflow the storage, is the exact sum of the raw
\* operands and satisfies its width invariant; main's summed is 0xcdbb6f11b456
\* (0x7fff8000 + 0xcdbaef123456) at width 49.
C7_Add ==
    /\ (/\ last.op = "add" /\ WidthInv(Self) /\ WidthInv(Rhs)
        /\ Max(Self.width, Rhs.width) + 1 <= MaximumWidth) =>
          /\ ~last.fault /\ last.out # None
          /\ Out.width = Max(Self.width, Rhs.width) + 1
          /\ WidthInv(Out)
          /\ ~AddOverflows(Self.data, Rhs.data)
          /\ (Small(Self.data) /\ Small(Rhs.data)) =>
                ToNat(Out.data) = ToNat(Self.data) + ToNat(Rhs.data)
    /\ pc >= 4 =>
          /\ Bound("shifted") = [data |-> HexLit(<<7, 15, 15, 15, 8, 0, 0, 0>>), width |-> 32]
          /\ Bound("summed") =
                [data |-> HexLit(<<12, 13, 11, 11, 6, 15, 1, 1, 11, 4, 5, 6>>), width |-> 49]

C7_Witness ==
    /\ pc = 4 /\ ~panicked
    /\ env["summed"] # None /\ Bound("summed").width = 49

\* C8: | and ^ of two values that satisfy their width invariants are tagged
\* max(W1, W2), & is tagged min(W1, W2), each holds the bitwise result and
\* satisfies its width invariant; ! is tagged 128 and holds the complement.
C8_Bitwise ==
    /\ (last.op \in {"bitor", "bitxor", "bitand"} /\ WidthInv(Self) /\ WidthInv(Rhs)) =>
          /\ ~last.fault /\ last.out # None
          /\ WidthInv(Out)
          /\ last.op = "bitor" =>
                /\ Out.width = Max(Self.width, Rhs.width)
                /\ \A i \in Bits : i \in Out.data <=> (i \in Self.data \/ i \in Rhs.data)
          /\ last.op = "bitxor" =>
                /\ Out.width = Max(Self.width, Rhs.width)
                /\ \A i \in Bits : i \in Out.data <=> ((i \in Self.data) # (i \in Rhs.data))
          /\ last.op = "bitand" =>
                /\ Out.width = Min(Self.width, Rhs.width)
                /\ \A i \in Bits : i \in Out.data <=> (i \in Self.data /\ i \in Rhs.data)
    /\ last.op = "not" =>
          /\ ~last.fault /\ last.out # None
          /\ Out.width = MaximumWidth
          /\ \A i \in Bits : i \in Out.data <=> i \notin Self.data

C8_Witness ==
    /\ last.op = "bitor" /\ last.out # None
    /\ Self.width = 8 /\ Rhs.width = 1 /\ Rhs.data # {} /\ Self.data # {}
    /\ Out.width = 8

\* C9: every value's declared width is in 0..128 and the fits check never runs
\* for a width above 128.
C9_WidthBound ==
    /\ \A s \in Slots : vals[s] # None => unwrap(vals[s]).width \in 0 .. MaximumWidth
    /\ last.op \in {"new", "narrow"} => last.arg <= MaximumWidth

\* C10: a - b is only admitted for W2 <= W1 and W1 >= 1, is tagged W1 - 1 and
\* holds what a + b computes, the sum of the raw operands; main's eighty_mask
\* is 2^80 + 1 and its six_mask is 2^6 + 1.
C10_Sub ==
    /\ last.op = "sub" =>
          /\ Rhs.width <= Self.width /\ Self.width >= 1
          /\ last.out # None =>
                /\ Out.width = Self.width - 1
                /\ Out.data = add(Self, Rhs).data
                /\ (Small(Self.data) /\ Small(Rhs.data)) =>
                      ToNat(Out.data) = ToNat(Self.data) + ToNat(Rhs.data)
    /\ pc >= 7 => Bound("eighty_mask") = [data |-> {0, 80}, width |-> 80]
    /\ pc >= 9 => Bound("six_mask") = [data |-> {0, 6}, width |-> 6]

C10_Witness ==
    /\ last.op = "sub" /\ last.out # None
    /\ Self.data = HexLit(<<15, 15>>) /\ Rhs.data = {0}
    /\ ToNat(Out.data) = 256

====
